---- MODULE Spec2Model ----
(***************************************************************************)
(* Model of the Compound v2 liquidation reconstruction of mev-inspect-py:  *)
(*   mev_inspect/compound_liquidations.py                                  *)
(*   mev_inspect/strategy_inspectors/compound_v2_ceth.py                   *)
(*                                                                         *)
(* Addresses are strings.  An address has a lower-case spelling and a      *)
(* mixed-case (checksum) spelling; str.lower() and Web3.toChecksumAddress  *)
(* convert between the two.  Python numbers are kept exact: an int is an   *)
(* integer, and a number that went through "/" is a decimal m * 10^e,      *)
(* written [m |-> m, e |-> e].  On-chain raw exchange rates (about 10^26)  *)
(* are decimals with e >= 0.  A Python call either returns a value or      *)
(* raises; both outcomes are records with a "status" field.                *)
(***************************************************************************)
EXTENDS Integers, Sequences, FiniteSets, TLC

VARIABLES chain, comp_markets, pc, fn, traces, tx, liquidation_contract, rate_args, ret

vars == <<chain, comp_markets, pc, fn, traces, tx, liquidation_contract, rate_args, ret>>

(* ---------------------------------------------------------------------- *)
(* Bounds                                                                  *)
(* ---------------------------------------------------------------------- *)
MaxMarkets == 3
MaxTraces == 3
MaxInspectTraces == 2

(* ---------------------------------------------------------------------- *)
(* Addresses and program constants                                         *)
(* ---------------------------------------------------------------------- *)
V2_COMPTROLLER_ADDRESS == "0xCOMPTROLLER"
V2_C_ETHER == "0xC_ETH"
WETH_ADDRESS == "0xweth"
None == "None"

ChecksumAddresses == {"0xC_DAI", "0xC_USDC", "0xC_ETH", "0xDAI", "0xUSDC", "0xWETH",
                      "0xS", "0xE", "0xO"}

lower(a) ==
    CASE a = "0xC_DAI" -> "0xc_dai"
      [] a = "0xC_USDC" -> "0xc_usdc"
      [] a = "0xC_ETH" -> "0xc_eth"
      [] a = "0xDAI" -> "0xdai"
      [] a = "0xUSDC" -> "0xusdc"
      [] a = "0xWETH" -> "0xweth"
      [] a = "0xS" -> "0xs"
      [] a = "0xE" -> "0xe"
      [] a = "0xO" -> "0xo"
      [] OTHER -> a

toChecksumAddress(a) ==
    IF \E c \in ChecksumAddresses : lower(c) = lower(a)
    THEN CHOOSE c \in ChecksumAddresses : lower(c) = lower(a)
    ELSE a

(* ---------------------------------------------------------------------- *)
(* Outcomes of a Python call                                               *)
(* ---------------------------------------------------------------------- *)
Return(v) == [status |-> "returned", value |-> v, error |-> None, at |-> 0]
Raise(kind) == [status |-> "raised", value |-> None, error |-> kind, at |-> 0]
RaiseAt(r, i) == [r EXCEPT !.at = i]
NoResult == [status |-> "none", value |-> None, error |-> None, at |-> 0]

(* ---------------------------------------------------------------------- *)
(* Exact decimal numbers m * 10^e                                          *)
(* ---------------------------------------------------------------------- *)
Dec(m, e) == [m |-> m, e |-> e]

RECURSIVE Normalize(_)
Normalize(d) ==
    IF d.m = 0 THEN Dec(0, 0)
    ELSE IF d.m % 10 = 0 THEN Normalize(Dec(d.m \div 10, d.e + 1))
    ELSE d

DecEq(a, b) == Normalize(a) = Normalize(b)
DecOfInt(n) == Dec(n, 0)
\* d * 10^k
DecMulPow10(d, k) == Dec(d.m, d.e + k)
\* n * d for an int n
IntTimesDec(n, d) == Dec(n * d.m, d.e)

(* ---------------------------------------------------------------------- *)
(* The chain-query capability (w3).  chain is the part of the chain state  *)
(* the program reads:                                                      *)
(*   markets   the list Comptroller.getAllMarkets() returns (checksum)     *)
(*   decimals  ERC20.decimals() of every token                             *)
(*   failing   the view calls that fail (revert / network error)           *)
(* ---------------------------------------------------------------------- *)
Query(f, a) == [f |-> f, a |-> a]

\* CToken.underlying(); cETH has no such function
Underlying == [c \in {"0xC_DAI", "0xC_USDC"} |->
                 IF c = "0xC_DAI" THEN "0xDAI" ELSE "0xUSDC"]

\* CToken.exchangeRateCurrent() at a block: the rate accrues every block
Blocks == {1, 2}
ExchangeRates == [c \in {"0xC_DAI", "0xC_USDC", "0xC_ETH"} |-> [b \in Blocks |->
                    CASE c = "0xC_DAI" -> Dec(1 + b, 26)
                      [] c = "0xC_USDC" -> Dec(20 + b, 13)
                      [] OTHER -> Dec(200 + b, 24)]]

CallGetAllMarkets(w3) ==
    IF Query("getAllMarkets", V2_COMPTROLLER_ADDRESS) \in w3.failing
    THEN Raise("ChainQueryError")
    ELSE Return(w3.markets)

CallUnderlying(w3, address) ==
    IF Query("underlying", address) \in w3.failing \/ address \notin DOMAIN Underlying
    THEN Raise("ChainQueryError")
    ELSE Return(Underlying[address])

CallExchangeRateCurrent(w3, address, block_identifier) ==
    IF Query("exchangeRateCurrent", address) \in w3.failing
       \/ address \notin DOMAIN ExchangeRates
    THEN Raise("ChainQueryError")
    ELSE Return(ExchangeRates[address][block_identifier])

CallDecimals(w3, address) ==
    IF Query("decimals", address) \in w3.failing \/ address \notin DOMAIN w3.decimals
    THEN Raise("ChainQueryError")
    ELSE Return(w3.decimals[address])

(* ---------------------------------------------------------------------- *)
(* get_all_comp_markets                                                    *)
(* ---------------------------------------------------------------------- *)
EmptyMapping == [k \in {} |-> None]
SetItem(m, k, v) == [x \in DOMAIN m \cup {k} |-> IF x = k THEN v ELSE m[x]]

\* the loop body's guard: make an exception for cETH
IsExceptedMarket_NoException(c_token) == FALSE

IsExceptedMarket(c_token) == c_token = V2_C_ETHER

RECURSIVE MarketsLoop(_, _, _, _)
MarketsLoop(w3, markets, k, c_token_mapping) ==
    IF k > Len(markets) THEN Return(c_token_mapping)
    ELSE LET c_token == markets[k] IN
         IF ~IsExceptedMarket(c_token)
         THEN LET underlying_token == CallUnderlying(w3, c_token) IN
              IF underlying_token.status = "raised" THEN underlying_token
              ELSE MarketsLoop(w3, markets, k + 1,
                       SetItem(c_token_mapping, lower(c_token), lower(underlying_token.value)))
         ELSE MarketsLoop(w3, markets, k + 1, c_token_mapping)

get_all_comp_markets(w3) ==
    LET markets == CallGetAllMarkets(w3) IN
    IF markets.status = "raised" THEN markets
    ELSE MarketsLoop(w3, markets.value, 1, EmptyMapping)

(* ---------------------------------------------------------------------- *)
(* ClassifiedTrace                                                         *)
(* ---------------------------------------------------------------------- *)
\* an absent value of a record type (Python None)
NoneObject == [is_none |-> TRUE]
IsNone(x) == "is_none" \in DOMAIN x
HasKey(inputs, key) == key \in DOMAIN inputs

ClassifiedTrace(transaction_hash, trace_address, block_number, classification, protocol, abi_name, function_name, from_address, to_address, inputs, value) ==
    [transaction_hash |-> transaction_hash, trace_address |-> trace_address,
     block_number |-> block_number, classification |-> classification,
     protocol |-> protocol, abi_name |-> abi_name, function_name |-> function_name,
     from_address |-> from_address, to_address |-> to_address,
     inputs |-> inputs, value |-> value]

\* mev_inspect.traces: the address a is a strict prefix of the address b
IsStrictPrefix(a, b) ==
    /\ Len(a) < Len(b)
    /\ \A k \in 1..Len(a) : a[k] = b[k]

\* mev_inspect.traces.get_child_traces: every trace of the transaction whose
\* address is a strict descendant of trace_address, in the original order
get_child_traces(transaction_hash, trace_address, all_traces) ==
    SelectSeq(all_traces, LAMBDA t : /\ t.transaction_hash = transaction_hash
                                     /\ IsStrictPrefix(trace_address, t.trace_address))

_get_seize_call(child_traces) ==
    LET seizes == {k \in 1..Len(child_traces) : child_traces[k].classification = "seize"} IN
    IF seizes = {} THEN NoneObject
    ELSE child_traces[CHOOSE k \in seizes : \A j \in seizes : k <= j]

(* ---------------------------------------------------------------------- *)
(* get_erc20_token_decimals, get_underlying_ctoken_exchange_rate           *)
(* ---------------------------------------------------------------------- *)
get_erc20_token_decimals(token_address, w3) ==
    CallDecimals(w3, toChecksumAddress(token_address))

\* the exponent of the divisor 10 ** (18 + decimals_in_underlying - decimals_in_ctoken)
RateExponent_SignFlipped(decimals_in_underlying, decimals_in_ctoken) ==
    18 - decimals_in_underlying + decimals_in_ctoken

RateExponent(decimals_in_underlying, decimals_in_ctoken) ==
    18 + decimals_in_underlying - decimals_in_ctoken

get_underlying_ctoken_exchange_rate(c_token_address, block_number, w3, markets) ==
    LET raw_exchange_rate ==
            CallExchangeRateCurrent(w3, toChecksumAddress(c_token_address), block_number)
    IN
    IF raw_exchange_rate.status = "raised" THEN raw_exchange_rate
    ELSE IF lower(c_token_address) \notin DOMAIN markets THEN Raise("KeyError")
    ELSE LET underlying_token_address == markets[lower(c_token_address)]
             decimals_in_underlying == get_erc20_token_decimals(underlying_token_address, w3)
         IN
         IF decimals_in_underlying.status = "raised" THEN decimals_in_underlying
         ELSE LET decimals_in_ctoken == get_erc20_token_decimals(c_token_address, w3) IN
              IF decimals_in_ctoken.status = "raised" THEN decimals_in_ctoken
              ELSE Return(DecMulPow10(raw_exchange_rate.value,
                              0 - RateExponent(decimals_in_underlying.value,
                                               decimals_in_ctoken.value)))

(* ---------------------------------------------------------------------- *)
(* get_compound_liquidations                                               *)
(* ---------------------------------------------------------------------- *)
Liquidation(liquidated_user, collateral_token_address, debt_token_address, liquidator_user, debt_purchase_amount, protocol, received_amount, transaction_hash, trace_address, block_number) ==
    [liquidated_user |-> liquidated_user,
     collateral_token_address |-> collateral_token_address,
     debt_token_address |-> debt_token_address,
     liquidator_user |-> liquidator_user,
     debt_purchase_amount |-> debt_purchase_amount,
     protocol |-> protocol,
     received_amount |-> received_amount,
     transaction_hash |-> transaction_hash,
     trace_address |-> trace_address,
     block_number |-> block_number]

\* the Liquidation( ... ) expression of the CEther branch; keyword arguments are
\* evaluated left to right, and the first failing one raises
CEtherLiquidation(trace, seize_trace, c_token_collateral, underlying_exchange_rate, markets) ==
    IF ~HasKey(trace.inputs, "borrower") THEN Raise("KeyError")
    ELSE IF c_token_collateral \notin DOMAIN markets THEN Raise("KeyError")
    ELSE IF IsNone(seize_trace) THEN Raise("AttributeError")
    ELSE IF ~HasKey(seize_trace.inputs, "liquidator") THEN Raise("KeyError")
    ELSE IF ~HasKey(seize_trace.inputs, "seizeTokens") THEN Raise("KeyError")
    ELSE Return(Liquidation(
             trace.inputs["borrower"],
             WETH_ADDRESS,
             markets[c_token_collateral],
             seize_trace.inputs["liquidator"],
             trace.value,
             "compound_v2",
             IntTimesDec(seize_trace.inputs["seizeTokens"], underlying_exchange_rate),
             trace.transaction_hash,
             trace.trace_address,
             trace.block_number))

\* the same expression with the collateral read from cTokenCollateral
CTokenLiquidation_CollateralFromInput(trace, seize_trace, c_token_collateral, underlying_exchange_rate, markets) ==
    IF ~HasKey(trace.inputs, "borrower") THEN Raise("KeyError")
    ELSE IF c_token_collateral \notin DOMAIN markets THEN Raise("KeyError")
    ELSE IF trace.to_address \notin DOMAIN markets THEN Raise("KeyError")
    ELSE IF IsNone(seize_trace) THEN Raise("AttributeError")
    ELSE IF ~HasKey(seize_trace.inputs, "liquidator") THEN Raise("KeyError")
    ELSE IF ~HasKey(trace.inputs, "repayAmount") THEN Raise("KeyError")
    ELSE IF ~HasKey(seize_trace.inputs, "seizeTokens") THEN Raise("KeyError")
    ELSE Return(Liquidation(
             trace.inputs["borrower"],
             markets[c_token_collateral],
             markets[trace.to_address],
             seize_trace.inputs["liquidator"],
             trace.inputs["repayAmount"],
             "compound_v2",
             IntTimesDec(seize_trace.inputs["seizeTokens"], underlying_exchange_rate),
             trace.transaction_hash,
             trace.trace_address,
             trace.block_number))

\* the Liquidation( ... ) expression of the CToken branch
CTokenLiquidation(trace, seize_trace, c_token_collateral, underlying_exchange_rate, markets) ==
    IF ~HasKey(trace.inputs, "borrower") THEN Raise("KeyError")
    ELSE IF trace.to_address \notin DOMAIN markets THEN Raise("KeyError")
    ELSE IF c_token_collateral \notin DOMAIN markets THEN Raise("KeyError")
    ELSE IF IsNone(seize_trace) THEN Raise("AttributeError")
    ELSE IF ~HasKey(seize_trace.inputs, "liquidator") THEN Raise("KeyError")
    ELSE IF ~HasKey(trace.inputs, "repayAmount") THEN Raise("KeyError")
    ELSE IF ~HasKey(seize_trace.inputs, "seizeTokens") THEN Raise("KeyError")
    ELSE Return(Liquidation(
             trace.inputs["borrower"],
             markets[trace.to_address],
             markets[c_token_collateral],
             seize_trace.inputs["liquidator"],
             trace.inputs["repayAmount"],
             "compound_v2",
             IntTimesDec(seize_trace.inputs["seizeTokens"], underlying_exchange_rate),
             trace.transaction_hash,
             trace.trace_address,
             trace.block_number))

\* the condition of the loop body
IsCompoundLiquidation(trace) ==
    /\ trace.classification = "liquidate"
    /\ trace.protocol = "compound_v2"

\* one iteration of the loop body for a trace that passed the condition:
\* returns the list of records it appends (none or one), or raises
LoopBody(all_traces, trace, markets, w3) ==
    LET child_traces == get_child_traces(trace.transaction_hash, trace.trace_address, all_traces)
        seize_trace == _get_seize_call(child_traces)
    IN
    IF IsNone(trace.inputs) THEN Raise("TypeError")
    ELSE IF ~HasKey(trace.inputs, "cTokenCollateral") THEN Raise("KeyError")
    ELSE LET c_token_collateral == trace.inputs["cTokenCollateral"]
             underlying_exchange_rate ==
                 get_underlying_ctoken_exchange_rate(c_token_collateral, trace.block_number,
                                                     w3, markets)
         IN
         IF underlying_exchange_rate.status = "raised" THEN underlying_exchange_rate
         ELSE IF trace.abi_name = "CEther"
              THEN LET l == CEtherLiquidation(trace, seize_trace, c_token_collateral,
                                              underlying_exchange_rate.value, markets)
                   IN IF l.status = "raised" THEN l ELSE Return(<<l.value>>)
         ELSE IF trace.abi_name = "CToken"
              THEN LET l == CTokenLiquidation(trace, seize_trace, c_token_collateral,
                                              underlying_exchange_rate.value, markets)
                   IN IF l.status = "raised" THEN l ELSE Return(<<l.value>>)
         ELSE Return(<<>>)

RECURSIVE LiquidationsLoop(_, _, _, _, _)
LiquidationsLoop(all_traces, i, liquidations, markets, w3) ==
    IF i > Len(all_traces) THEN Return(liquidations)
    ELSE IF IsCompoundLiquidation(all_traces[i])
         THEN LET r == LoopBody(all_traces, all_traces[i], markets, w3) IN
              IF r.status = "raised" THEN RaiseAt(r, i)
              ELSE LiquidationsLoop(all_traces, i + 1, liquidations \o r.value, markets, w3)
         ELSE LiquidationsLoop(all_traces, i + 1, liquidations, markets, w3)

get_compound_liquidations(all_traces, markets, w3) ==
    LiquidationsLoop(all_traces, 1, <<>>, markets, w3)

(* ---------------------------------------------------------------------- *)
(* find_collateral_source, inspect_compound_v2_ceth                        *)
(* ---------------------------------------------------------------------- *)
Transaction(tx_hash, from_address, to_address) ==
    [tx_hash |-> tx_hash, from_address |-> from_address, to_address |-> to_address]

\* the condition under which a trace is the liquidating call, without the
\* test of the function name
IsLiquidateBorrowCall_AnyFunction(classified_trace, contract) ==
    classified_trace.to_address = contract

IsLiquidateBorrowCall(classified_trace, contract) ==
    /\ classified_trace.to_address = contract
    /\ classified_trace.function_name = "liquidateBorrow"

\* the if / elif on the transaction's addresses; source is left as it was
\* when neither matches
AttributeSource(transaction, classified_trace, source) ==
    IF lower(transaction.to_address) = classified_trace.from_address
    THEN "searcher_contract"
    ELSE IF lower(transaction.from_address) = classified_trace.from_address
    THEN "searcher_eoa"
    ELSE source

RECURSIVE SourceLoop(_, _, _, _, _)
SourceLoop(classified_traces, i, transaction, contract, source) ==
    IF i > Len(classified_traces) THEN source
    ELSE IF IsLiquidateBorrowCall(classified_traces[i], contract)
         THEN SourceLoop(classified_traces, i + 1, transaction, contract,
                         AttributeSource(transaction, classified_traces[i], source))
         ELSE SourceLoop(classified_traces, i + 1, transaction, contract, source)

find_collateral_source(classified_traces, transaction, contract) ==
    SourceLoop(classified_traces, 1, transaction, contract, "other")

\* Liquidation() : the record built with no field given
DefaultLiquidation == [is_default |-> TRUE]
IsDefaultLiquidation(l) == "is_default" \in DOMAIN l

InspectorLiquidation(tx_hash, borrower, collateral_provided_amount, asset_seized, collateral_source) ==
    [tx_hash |-> tx_hash, borrower |-> borrower, collateral_provided |-> "ether",
     collateral_provided_amount |-> collateral_provided_amount,
     asset_seized |-> asset_seized, asset_seized_amount |-> 0, profit_in_eth |-> 0,
     tokenflow_estimate_in_eth |-> 0, tokenflow_diff |-> 0,
     collateral_source |-> collateral_source, status |-> "seized",
     type |-> "compound_v2_ceth_liquidation"]

\* the condition of the loop of inspect_compound_v2_ceth
IsInspectedCall(classified_trace) ==
    /\ classified_trace.function_name = "liquidateBorrow"
    /\ ~IsNone(classified_trace.inputs)

InspectCall(transaction, classified_traces, classified_trace, w3) ==
    LET source == find_collateral_source(classified_traces, transaction,
                                         classified_trace.to_address)
    IN
    IF ~HasKey(classified_trace.inputs, "borrower") THEN Raise("KeyError")
    ELSE IF ~HasKey(classified_trace.inputs, "cTokenCollateral") THEN Raise("KeyError")
    ELSE LET c_token_collateral == classified_trace.inputs["cTokenCollateral"]
             markets == get_all_comp_markets(w3)
         IN
         IF markets.status = "raised" THEN markets
         ELSE IF c_token_collateral \notin DOMAIN markets.value THEN Raise("KeyError")
         ELSE Return(InspectorLiquidation(transaction.tx_hash,
                                          classified_trace.inputs["borrower"],
                                          classified_trace.value,
                                          markets.value[c_token_collateral],
                                          source))

inspect_compound_v2_ceth(transaction, classified_traces, w3) ==
    LET hits == {k \in 1..Len(classified_traces) : IsInspectedCall(classified_traces[k])} IN
    IF hits = {} THEN Return(DefaultLiquidation)
    ELSE LET first == CHOOSE k \in hits : \A j \in hits : k <= j IN
         RaiseAt(InspectCall(transaction, classified_traces, classified_traces[first], w3),
                 first)

(* ---------------------------------------------------------------------- *)
(* Inputs                                                                  *)
(* ---------------------------------------------------------------------- *)
RECURSIVE SeqsUpTo(_, _)
SeqsUpTo(S, n) ==
    IF n = 0 THEN {<<>>}
    ELSE LET shorter == SeqsUpTo(S, n - 1) IN
         shorter \cup {Append(q, x) : q \in {r \in shorter : Len(r) = n - 1}, x \in S}

RealisticDecimals == [a \in {"0xC_DAI", "0xC_USDC", "0xC_ETH", "0xDAI", "0xUSDC", "0xWETH"} |->
                        CASE a = "0xDAI" -> 18
                          [] a = "0xWETH" -> 18
                          [] a = "0xUSDC" -> 6
                          [] OTHER -> 8]
EqualDecimals == [a \in DOMAIN RealisticDecimals |-> 8]
WideCTokenDecimals == [a \in DOMAIN RealisticDecimals |->
                         IF a \in {"0xC_DAI", "0xC_USDC", "0xC_ETH"} THEN 40 ELSE 2]
DecimalsChoices == {RealisticDecimals, EqualDecimals, WideCTokenDecimals}

Chain(markets, decimals, failing) ==
    [markets |-> markets, decimals |-> decimals, failing |-> failing]

CTokens == {"0xC_DAI", "0xC_USDC", "0xC_ETH"}

\* chains of the registry build: every market list, at most one failing query
MarketChains ==
    {Chain(m, RealisticDecimals, f) :
        m \in SeqsUpTo(CTokens, MaxMarkets),
        f \in {{}, {Query("getAllMarkets", V2_COMPTROLLER_ADDRESS)},
               {Query("underlying", "0xC_DAI")}, {Query("underlying", "0xC_USDC")}}}

\* chains of the reconstruction pass
LiquidationChains ==
    {Chain(m, d, {}) : m \in {<<"0xC_DAI", "0xC_USDC", "0xC_ETH">>, <<"0xC_ETH", "0xC_DAI">>},
                       d \in DecimalsChoices}
    \cup {Chain(<<"0xC_DAI", "0xC_USDC", "0xC_ETH">>, RealisticDecimals, f) :
             f \in {{Query("exchangeRateCurrent", "0xC_DAI")}, {Query("decimals", "0xDAI")},
                    {Query("underlying", "0xC_USDC")}}}

InspectChains ==
    {Chain(<<"0xC_DAI", "0xC_ETH">>, RealisticDecimals, f) :
        f \in {{}, {Query("getAllMarkets", V2_COMPTROLLER_ADDRESS)}}}

\* decoded inputs of liquidateBorrow (CToken: borrower, repayAmount,
\* cTokenCollateral; CEther: borrower, cTokenCollateral) and of seize
TokenInputs(c) == [borrower |-> "0xb", cTokenCollateral |-> c, repayAmount |-> 1000]
EtherInputs(c) == [borrower |-> "0xb", cTokenCollateral |-> c]
NoCollateralInputs == [borrower |-> "0xb", repayAmount |-> 1000]
NoBorrowerInputs == [cTokenCollateral |-> "0xc_dai", repayAmount |-> 1000]
SeizeInputs == [liquidator |-> "0xl", seizeTokens |-> 500]

LiquidateTrace(trace_address, block_number, protocol, abi_name, to_address, inputs, value) ==
    ClassifiedTrace("0xt1", trace_address, block_number, "liquidate", protocol, abi_name,
                    "liquidateBorrow", "0xs", to_address, inputs, value)

\* liquidation calls at the root of transaction 0xt1
RootLiquidateTraces ==
    { LiquidateTrace(<<>>, 1, "compound_v2", "CToken", "0xc_usdc", TokenInputs("0xc_dai"), 0),
      LiquidateTrace(<<>>, 2, "compound_v2", "CToken", "0xc_dai", TokenInputs("0xc_usdc"), 0),
      LiquidateTrace(<<>>, 2, "compound_v2", "CEther", "0xc_eth", EtherInputs("0xc_dai"), 7),
      LiquidateTrace(<<>>, 1, "compound_v2", "CEther", "0xc_eth", EtherInputs("0xc_usdc"), 0),
      LiquidateTrace(<<>>, 1, "compound_v2", "CToken", "0xc_usdc", TokenInputs("0xc_eth"), 0),
      LiquidateTrace(<<>>, 1, "compound_v2", "CToken", "0xc_usdc", EtherInputs("0xc_dai"), 0),
      LiquidateTrace(<<>>, 1, "compound_v2", "CToken", "0xc_usdc", NoCollateralInputs, 0),
      LiquidateTrace(<<>>, 1, "compound_v2", "CToken", "0xc_usdc", NoBorrowerInputs, 0),
      LiquidateTrace(<<>>, 1, "compound_v2", "CErc20", "0xc_usdc", TokenInputs("0xc_dai"), 0),
      LiquidateTrace(<<>>, 1, "aave", "AaveLendingPool", "0xpool", TokenInputs("0xc_dai"), 0) }

\* liquidation calls nested one level down
NestedLiquidateTraces ==
    { LiquidateTrace(<<0>>, 1, "compound_v2", "CToken", "0xc_usdc", TokenInputs("0xc_dai"), 0),
      LiquidateTrace(<<0>>, 2, "compound_v2", "CEther", "0xc_eth", EtherInputs("0xc_dai"), 7),
      LiquidateTrace(<<0>>, 1, "compound_v2", "CToken", "0xc_usdc", NoCollateralInputs, 0) }

SeizeTraces ==
    { ClassifiedTrace(h, a, 1, "seize", "compound_v2", "CToken", "seize", "0xc_usdc",
                      "0xc_dai", SeizeInputs, 0) :
        h \in {"0xt1", "0xt2"}, a \in {<<0>>, <<0, 0>>} }

UnknownTraces ==
    { ClassifiedTrace("0xt1", <<1>>, 1, "unknown", None, None, None, "0xs", "0xo",
                      NoneObject, 0) }

TraceSet == RootLiquidateTraces \cup NestedLiquidateTraces \cup SeizeTraces \cup UnknownTraces

\* traces seen by the ceth inspector: calls from the searcher contract, the
\* searcher account or a third party
InspectTraceSet ==
    { ClassifiedTrace("0xt1", <<>>, 1, "liquidate", "compound_v2", "CEther",
                      "liquidateBorrow", f, t, i, 7) :
        f \in {"0xs", "0xe", "0xo"}, t \in {"0xc_eth", "0xc_dai"},
        i \in {NoneObject, EtherInputs("0xc_dai")} }
    \cup { ClassifiedTrace("0xt1", <<>>, 1, "liquidate", "compound_v2", "CEther",
                           "liquidateBorrow", "0xs", "0xc_eth", EtherInputs("0xc_eth"), 7),
           ClassifiedTrace("0xt1", <<0>>, 1, "seize", "compound_v2", "CToken",
                           "seize", "0xs", "0xc_eth", SeizeInputs, 0) }

Transactions ==
    { Transaction("0xt1", f, t) : f \in {"0xE", "0xO"}, t \in {"0xS", "0xs", "0xE"} }

(* ---------------------------------------------------------------------- *)
(* State machine                                                           *)
(* ---------------------------------------------------------------------- *)
NoTransaction == NoneObject

InitWith(chains) ==
    /\ chain \in chains
    /\ comp_markets = EmptyMapping
    /\ pc = "start"
    /\ fn = None
    /\ traces = <<>>
    /\ tx = NoTransaction
    /\ liquidation_contract = None
    /\ rate_args = NoneObject
    /\ ret = NoResult

Init == InitWith(LiquidationChains)
InitMarkets == InitWith(MarketChains)
InitInspect == InitWith(InspectChains)

\* inspect_block builds the registry once, before the pass
GetAllCompMarkets ==
    /\ pc = "start"
    /\ LET r == get_all_comp_markets(chain) IN
        /\ ret' = r
        /\ comp_markets' = IF r.status = "returned" THEN r.value ELSE comp_markets
        /\ pc' = IF r.status = "returned" THEN "ready" ELSE "failed"
    /\ fn' = "get_all_comp_markets"
    /\ UNCHANGED <<chain, traces, tx, liquidation_contract, rate_args>>

GetCompoundLiquidations ==
    /\ pc = "ready"
    /\ \E ts \in SeqsUpTo(TraceSet, MaxTraces) :
        /\ traces' = ts
        /\ ret' = get_compound_liquidations(ts, comp_markets, chain)
    /\ fn' = "get_compound_liquidations"
    /\ pc' = "done"
    /\ UNCHANGED <<chain, comp_markets, tx, liquidation_contract, rate_args>>

GetUnderlyingCtokenExchangeRate ==
    /\ pc = "ready"
    /\ \E c \in {"0xc_dai", "0xc_usdc", "0xc_eth", "0xC_DAI"}, b \in Blocks :
        /\ rate_args' = [c_token_address |-> c, block_number |-> b]
        /\ ret' = get_underlying_ctoken_exchange_rate(c, b, chain, comp_markets)
    /\ fn' = "get_underlying_ctoken_exchange_rate"
    /\ pc' = "done"
    /\ UNCHANGED <<chain, comp_markets, traces, tx, liquidation_contract>>

FindCollateralSource ==
    /\ pc = "start"
    /\ \E ts \in SeqsUpTo(InspectTraceSet, MaxInspectTraces), t \in Transactions,
          c \in {"0xc_eth", "0xc_dai", None} :
        /\ traces' = ts
        /\ tx' = t
        /\ liquidation_contract' = c
        /\ ret' = Return(find_collateral_source(ts, t, c))
    /\ fn' = "find_collateral_source"
    /\ pc' = "done"
    /\ UNCHANGED <<chain, comp_markets, rate_args>>

InspectCompoundV2Ceth ==
    /\ pc = "start"
    /\ \E ts \in SeqsUpTo(InspectTraceSet, MaxInspectTraces), t \in Transactions :
        /\ traces' = ts
        /\ tx' = t
        /\ ret' = inspect_compound_v2_ceth(t, ts, chain)
    /\ fn' = "inspect_compound_v2_ceth"
    /\ pc' = "done"
    /\ UNCHANGED <<chain, comp_markets, liquidation_contract, rate_args>>

Next == GetAllCompMarkets \/ GetCompoundLiquidations \/ GetUnderlyingCtokenExchangeRate
NextMarkets == GetAllCompMarkets
NextInspect == FindCollateralSource \/ InspectCompoundV2Ceth

Spec == Init /\ [][Next]_vars
SpecMarkets == InitMarkets /\ [][NextMarkets]_vars
SpecInspect == InitInspect /\ [][NextInspect]_vars

(* ---------------------------------------------------------------------- *)
(* Properties                                                              *)
(* ---------------------------------------------------------------------- *)
CalledLiquidations == fn = "get_compound_liquidations" /\ pc = "done"
Returned == ret.status = "returned"

SeizeOf(trace) ==
    _get_seize_call(get_child_traces(trace.transaction_hash, trace.trace_address, traces))

\* the records handed to the caller: nothing when the call raised
ReturnedRecords == IF Returned THEN ret.value ELSE <<>>

HasRecordOf(trace) ==
    \E k \in 1..Len(ReturnedRecords) :
        /\ ReturnedRecords[k].transaction_hash = trace.transaction_hash
        /\ ReturnedRecords[k].trace_address = trace.trace_address

SameProvenance(record, trace) ==
    /\ record.transaction_hash = trace.transaction_hash
    /\ record.trace_address = trace.trace_address
    /\ record.block_number = trace.block_number

\* C1: a compound_v2 liquidate trace without a seize descendant yields no
\* record and no error, whatever its abi_name: the pass does not raise at it.
C1_SkipOnNoSeize ==
    CalledLiquidations =>
        \A i \in 1..Len(traces) :
            (IsCompoundLiquidation(traces[i]) /\ IsNone(SeizeOf(traces[i])))
                => /\ ~(ret.status = "raised" /\ ret.at = i)
                   /\ ~HasRecordOf(traces[i])

\* C2: a failure while reconstructing one trace is scoped to that trace: the
\* record of every other trace that reconstructs is still returned.
C2_FailureScopedToTrace ==
    CalledLiquidations =>
        \A j \in 1..Len(traces) :
            (/\ IsCompoundLiquidation(traces[j])
             /\ ~IsNone(SeizeOf(traces[j]))
             /\ LoopBody(traces, traces[j], comp_markets, chain).status = "returned"
             /\ LoopBody(traces, traces[j], comp_markets, chain).value # <<>>)
                => \E k \in 1..Len(ReturnedRecords) :
                      ReturnedRecords[k] =
                          LoopBody(traces, traces[j], comp_markets, chain).value[1]

\* C3: the output holds exactly one record per qualifying trace (liquidate,
\* compound_v2, with a seize descendant), in input order, carrying the
\* transaction_hash, trace_address and block_number of its trace.
QualifyingTraces ==
    SelectSeq(traces, LAMBDA t : IsCompoundLiquidation(t) /\ ~IsNone(SeizeOf(t)))

C3_OneRecordPerQualifyingTrace ==
    (CalledLiquidations /\ Returned) =>
        /\ Len(ret.value) = Len(QualifyingTraces)
        /\ \A k \in 1..Len(ret.value) : SameProvenance(ret.value[k], QualifyingTraces[k])

\* C4: branch selection.  A CEther liquidation yields collateral WETH_ADDRESS
\* and debt_purchase_amount = value; a CToken liquidation yields collateral
\* comp_markets[to_address] and debt_purchase_amount = repayAmount; both
\* yield debt_token_address = comp_markets[cTokenCollateral]; each such trace
\* yields one record, so none yields records of both branches.
BranchTraces ==
    SelectSeq(traces, LAMBDA t : /\ t.classification = "liquidate"
                                 /\ t.protocol = "compound_v2"
                                 /\ t.abi_name \in {"CEther", "CToken"})

C4_BranchSelection ==
    (CalledLiquidations /\ Returned) =>
        /\ Len(ret.value) = Len(BranchTraces)
        /\ \A k \in 1..Len(ret.value) :
              LET t == BranchTraces[k]
                  l == ret.value[k]
              IN /\ SameProvenance(l, t)
                 /\ l.debt_token_address = comp_markets[t.inputs["cTokenCollateral"]]
                 /\ t.abi_name = "CEther" =>
                        /\ l.collateral_token_address = WETH_ADDRESS
                        /\ l.debt_purchase_amount = t.value
                 /\ t.abi_name = "CToken" =>
                        /\ l.collateral_token_address = comp_markets[t.to_address]
                        /\ l.debt_purchase_amount = t.inputs["repayAmount"]

C4_Witness ==
    /\ CalledLiquidations /\ Returned
    /\ Len(ret.value) = 2
    /\ \E i, j \in 1..Len(traces) :
          /\ traces[i].abi_name = "CEther" /\ traces[i].value # 0
          /\ IsCompoundLiquidation(traces[i])
          /\ traces[j].abi_name = "CToken" /\ HasKey(traces[j].inputs, "repayAmount")
          /\ IsCompoundLiquidation(traces[j])

\* C5: the end-to-end scenario of the spec: registry {0xc_dai -> 0xdai,
\* 0xc_usdc -> 0xusdc}, a CToken liquidation on 0xc_usdc with cTokenCollateral
\* 0xc_dai and repayAmount 1000, a child seize of 500 tokens and a rate of
\* 0.02 yield one record with debt 0xusdc, collateral 0xdai, amount 1000 and
\* received_amount 10.0.
ScenarioRegistry ==
    [c \in {"0xc_dai", "0xc_usdc"} |-> IF c = "0xc_dai" THEN "0xdai" ELSE "0xusdc"]

ScenarioTraces ==
    << LiquidateTrace(<<>>, 1, "compound_v2", "CToken", "0xc_usdc", TokenInputs("0xc_dai"), 0),
       ClassifiedTrace("0xt1", <<0>>, 1, "seize", "compound_v2", "CToken", "seize",
                       "0xc_usdc", "0xc_dai", SeizeInputs, 0) >>

InScenario ==
    /\ CalledLiquidations
    /\ comp_markets = ScenarioRegistry
    /\ traces = ScenarioTraces
    /\ LET rate == get_underlying_ctoken_exchange_rate("0xc_dai", 1, chain, comp_markets) IN
          rate.status = "returned" /\ DecEq(rate.value, Dec(2, 0 - 2))

C5_EndToEndScenario ==
    InScenario =>
        /\ Returned
        /\ Len(ret.value) = 1
        /\ ret.value[1].debt_token_address = "0xusdc"
        /\ ret.value[1].collateral_token_address = "0xdai"
        /\ ret.value[1].debt_purchase_amount = 1000
        /\ DecEq(ret.value[1].received_amount, DecOfInt(10))

\* C6: the converted rate is raw_rate / 10^(18 + d_u - d_c), with the raw rate
\* read at the block of the call, d_u the decimals of the registry's
\* underlying and d_c the decimals of the cToken; received_amount of a record
\* is seizeTokens times the rate of its trace's cTokenCollateral at its
\* trace's block.  (x = r / 10^k is stated as x * 10^k = r.)
RawRateAt(c_token_address, block_number) ==
    ExchangeRates[toChecksumAddress(c_token_address)][block_number]
DecimalsOfUnderlying(c_token_address) ==
    chain.decimals[toChecksumAddress(comp_markets[lower(c_token_address)])]
DecimalsOfCToken(c_token_address) ==
    chain.decimals[toChecksumAddress(c_token_address)]
SpecExponent(c_token_address) ==
    18 + DecimalsOfUnderlying(c_token_address) - DecimalsOfCToken(c_token_address)

C6_RateConversion ==
    /\ (fn = "get_underlying_ctoken_exchange_rate" /\ pc = "done" /\ Returned) =>
          DecEq(DecMulPow10(ret.value, SpecExponent(rate_args.c_token_address)),
                RawRateAt(rate_args.c_token_address, rate_args.block_number))
    /\ (CalledLiquidations /\ Returned) =>
          \A k \in 1..Len(ret.value) :
              LET t == BranchTraces[k]
                  c == t.inputs["cTokenCollateral"]
              IN DecEq(DecMulPow10(ret.value[k].received_amount, SpecExponent(c)),
                       IntTimesDec(SeizeOf(t).inputs["seizeTokens"],
                                   RawRateAt(c, t.block_number)))

C6_Witness ==
    /\ CalledLiquidations /\ Returned
    /\ Len(ret.value) = 2
    /\ ret.value[1].block_number # ret.value[2].block_number
    /\ LET c == BranchTraces[2].inputs["cTokenCollateral"] IN
          /\ DecimalsOfUnderlying(c) > DecimalsOfCToken(c)
          /\ ret.value[2].received_amount.m # 0

\* C7: the native-asset market is special-cased wherever it is looked up: a
\* liquidation whose cTokenCollateral is the cETH address does not fail with
\* a registry miss; its underlying resolves to WETH_ADDRESS and a record is
\* emitted.
C7_NativeMarketSpecialCased ==
    CalledLiquidations =>
        \A i \in 1..Len(traces) :
            (/\ IsCompoundLiquidation(traces[i])
             /\ traces[i].abi_name \in {"CEther", "CToken"}
             /\ traces[i].inputs = TokenInputs(lower(V2_C_ETHER))
             /\ ~IsNone(SeizeOf(traces[i])))
                => /\ ~(ret.status = "raised" /\ ret.at = i /\ ret.error = "KeyError")
                   /\ Returned =>
                         \E k \in 1..Len(ret.value) :
                             /\ SameProvenance(ret.value[k], traces[i])
                             /\ ret.value[k].debt_token_address = WETH_ADDRESS

\* C8: with exactly one trace whose to_address is liquidation_contract and
\* whose function_name is liquidateBorrow, find_collateral_source returns
\* searcher_contract if the transaction's to_address is that call's
\* from_address, otherwise searcher_eoa if the transaction's from_address is
\* that call's from_address, otherwise other; with no such trace it returns
\* other.  (Addresses are equal when they are the same address, whatever the
\* case of the hex digits.)
SameAddress(a, b) == lower(a) = lower(b)

OuterCalls ==
    {i \in 1..Len(traces) : /\ traces[i].to_address = liquidation_contract
                            /\ traces[i].function_name = "liquidateBorrow"}

C8_CollateralSource ==
    (fn = "find_collateral_source" /\ pc = "done") =>
        /\ OuterCalls = {} => ret.value = "other"
        /\ Cardinality(OuterCalls) = 1 =>
              LET call == traces[CHOOSE i \in OuterCalls : TRUE] IN
              ret.value = IF SameAddress(tx.to_address, call.from_address)
                          THEN "searcher_contract"
                          ELSE IF SameAddress(tx.from_address, call.from_address)
                          THEN "searcher_eoa"
                          ELSE "other"

C8_Witness ==
    /\ fn = "find_collateral_source" /\ pc = "done"
    /\ Cardinality(OuterCalls) = 1
    /\ Len(traces) = 2
    /\ ret.value = "searcher_eoa"

\* C9: get_all_comp_markets is all-or-nothing.  When every query succeeds the
\* registry maps the lower-cased address of every enumerated market other
\* than cETH to its lower-cased underlying and has no entry for cETH; when
\* the enumeration or the underlying() query of one such market fails, the
\* call raises and the caller gets no registry.
EnumeratedMarkets == {chain.markets[k] : k \in 1..Len(chain.markets)} \ {V2_C_ETHER}

SomeQueryFails ==
    \/ Query("getAllMarkets", V2_COMPTROLLER_ADDRESS) \in chain.failing
    \/ \E m \in EnumeratedMarkets : Query("underlying", m) \in chain.failing

C9_RegistryAllOrNothing ==
    (fn = "get_all_comp_markets") =>
        /\ SomeQueryFails =>
              /\ ret.status = "raised"
              /\ comp_markets = EmptyMapping
        /\ ~SomeQueryFails =>
              /\ Returned
              /\ comp_markets = ret.value
              /\ DOMAIN ret.value = {lower(m) : m \in EnumeratedMarkets}
              /\ \A m \in EnumeratedMarkets : ret.value[lower(m)] = lower(Underlying[m])
              /\ lower(V2_C_ETHER) \notin DOMAIN ret.value
              /\ V2_C_ETHER \notin DOMAIN ret.value

C9_Witness ==
    /\ fn = "get_all_comp_markets"
    /\ Returned
    /\ \E k \in 1..Len(chain.markets) : chain.markets[k] = V2_C_ETHER
    /\ Cardinality(DOMAIN ret.value) = 2

\* C10: when no trace has function_name liquidateBorrow and non-null inputs,
\* inspect_compound_v2_ceth returns an explicit absent result, never a
\* default placeholder Liquidation.
C10_AbsentNotPlaceholder ==
    (/\ fn = "inspect_compound_v2_ceth" /\ pc = "done"
     /\ \A i \in 1..Len(traces) :
           ~(traces[i].function_name = "liquidateBorrow" /\ ~IsNone(traces[i].inputs)))
        => /\ Returned
           /\ IsNone(ret.value)

====
